---- MODULE Spec2Model ----
(***************************************************************************)
(* A model of clinical_trials_client.py: the per-record projection         *)
(* _extract_study_data and the pagination loop fetch_all_trials.           *)
(*                                                                         *)
(* JSON / Python values are tagged records, so that values of different    *)
(* Python types can sit in one dict or list and be compared:               *)
(*   Str(s)  a str          JInt(n)  an int        PyNone  None / null     *)
(*   List(l) a list         Map(m)   a dict (m a function on its keys)     *)
(* Raise is not a value: it is the outcome of an expression that raised.   *)
(***************************************************************************)
EXTENDS Integers, Sequences, FiniteSets, TLC

VARIABLES
    study_dict,             \* _extract_study_data: its argument
    extracted_data,         \* _extract_study_data: what the call returned
    xpc,                    \* _extract_study_data: "call" | "returned" | "idle"
    heap,                   \* the dict objects: "caller" (query_params), "copy"
    local_query_params,     \* fetch_all_trials: reference to the working dict
    max_pages,              \* fetch_all_trials: argument
    page_size,              \* fetch_all_trials: argument
    current_page,           \* fetch_all_trials: loop counter
    all_extracted_studies,  \* fetch_all_trials: the accumulating list
    served,                 \* the registry: how many of its records were sent
    responses,              \* history: the outcome of each GET, in order
    io,                     \* history: the GETs (with their params) and sleeps
    pc,                     \* fetch_all_trials: "call" | "loop" | "returned" | "raised" | "idle"
    result                  \* fetch_all_trials: the returned list

vars == <<study_dict, extracted_data, xpc, heap, local_query_params, max_pages,
          page_size, current_page, all_extracted_studies, served, responses,
          io, pc, result>>

fetch_vars == <<heap, local_query_params, max_pages, page_size, current_page,
                all_extracted_studies, served, responses, io, pc, result>>

extract_vars == <<study_dict, extracted_data, xpc>>

-----------------------------------------------------------------------------
(* Python values *)

Str(s) == [t |-> "str", s |-> s]

JInt(n) == [t |-> "int", n |-> n]

PyNone == [t |-> "none"]

List(l) == [t |-> "list", l |-> l]

Map(m) == [t |-> "map", m |-> m]

Raise == [t |-> "raise"]

\* {} : the dict with no keys
EmptyDict == [k \in {} |-> PyNone]

\* d[k] = v on a dict (a function on its keys)
DictSet(d, k, v) == [x \in DOMAIN d \cup {k} |-> IF x = k THEN v ELSE d[x]]

\* obj.get(key, default): only a dict has .get; on anything else the attribute
\* lookup raises AttributeError. A present key yields its value, whatever it is.
PyGet(obj, key, default) ==
    IF obj.t = "map"
    THEN IF key \in DOMAIN obj.m THEN obj.m[key] ELSE default
    ELSE Raise

\* bool(v), as `if v:` tests it
Truthy(v) ==
    CASE v.t = "none" -> FALSE
      [] v.t = "str"  -> v.s # ""
      [] v.t = "int"  -> v.n # 0
      [] v.t = "list" -> v.l # <<>>
      [] v.t = "map"  -> DOMAIN v.m # {}

\* str(v) as an f-string field formats it (str, None and int values)
Format(v) ==
    CASE v.t = "str"  -> v.s
      [] v.t = "none" -> "None"
      [] v.t = "int"  -> ToString(v.n)

\* What `for x in v` yields, as a list: the items of a list, the keys of a dict, the
\* characters of a str; None and int are not iterable (TypeError), and the
\* iterable is never reached when the expression computing it raised.
\* A non-empty str yields one-character strs: one stands for them all here,
\* as nothing below tells characters apart.
IterItems(v) ==
    CASE v.t = "list" -> v
      [] v.t = "map"  -> IF DOMAIN v.m = {} THEN List(<<>>) ELSE List(<<Str("k")>>)
      [] v.t = "str"  -> IF v.s = "" THEN List(<<>>) ELSE List(<<Str("c")>>)
      [] OTHER        -> Raise

-----------------------------------------------------------------------------
(* _extract_study_data *)

NotAvailable == Str("Not Available")

\* A plausible slip: one default token for both levels
NA_Conflated == Str("Not Available")

NA == Str("N/A")

OutputFields ==
    {"NCT ID", "Title", "Status", "Phases", "Conditions", "Keywords",
     "Study Type", "Enrollment", "Interventions", "Brief Summary",
     "Primary Outcome Measures", "Eligibility Criteria", "Start Date",
     "Completion Date", "Locations"}

\* [item.get(key, 'N/A') for item in items]
NamesOf(items, key) ==
    LET its == IterItems(items) IN
    IF its = Raise THEN Raise
    ELSE LET got == [i \in DOMAIN its.l |-> PyGet(its.l[i], key, NA)] IN
         IF \E i \in DOMAIN got : got[i] = Raise THEN Raise ELSE List(got)

\* f"{loc.get('city', 'N/A')}, {loc.get('country', 'N/A')}"
LocationString(loc) ==
    LET city    == PyGet(loc, "city", NA)
        country == PyGet(loc, "country", NA)
    IN  IF city = Raise \/ country = Raise THEN Raise
        ELSE Str(Format(city) \o ", " \o Format(country))

\* [f"..." for loc in locations_list]
LocationInfo(locations_list) ==
    LET its == IterItems(locations_list) IN
    IF its = Raise THEN Raise
    ELSE LET got == [i \in DOMAIN its.l |-> LocationString(its.l[i])] IN
         IF \E i \in DOMAIN got : got[i] = Raise THEN Raise ELSE List(got)

\* a.get(k1, {}).get(k2, default). When the first call raised, the second is
\* never made: PyGet of a Raise is a Raise (it is no dict).
PyGet2(obj, k1, k2, default) ==
    PyGet(PyGet(obj, k1, Map(EmptyDict)), k2, default)

\* The body of the try block: the dict assembled at lines 76-83, or Raise when
\* any statement before it raised.
ExtractBody(sd) ==
    LET protocol   == PyGet(sd, "protocolSection", Map(EmptyDict))
        id_module  == PyGet(protocol, "identificationModule", Map(EmptyDict))
        nct_id     == PyGet(id_module, "nctId", NotAvailable)
        title      == PyGet(id_module, "briefTitle", NotAvailable)
        status_module == PyGet(protocol, "statusModule", Map(EmptyDict))
        status     == PyGet(status_module, "overallStatus", NotAvailable)
        start_date == PyGet2(status_module, "startDateStruct", "date", NotAvailable)
        completion_date == PyGet2(status_module, "completionDateStruct", "date", NotAvailable)
        design_module == PyGet(protocol, "designModule", Map(EmptyDict))
        phases     == PyGet(design_module, "phases", List(<<>>))
        study_type == PyGet(design_module, "studyType", NotAvailable)
        enrollment == PyGet2(design_module, "enrollmentInfo", "count", PyNone)
        conditions == PyGet2(protocol, "conditionsModule", "conditions", List(<<>>))
        keywords   == PyGet2(protocol, "conditionsModule", "keywords", List(<<>>))
        eligibility == PyGet2(protocol, "eligibilityModule", "eligibilityCriteria", NotAvailable)
        interventions_list == PyGet2(protocol, "armsInterventionsModule", "interventions", List(<<>>))
        intervention_names == NamesOf(interventions_list, "name")
        brief_summary == PyGet2(protocol, "descriptionModule", "briefSummary", NotAvailable)
        primary_outcomes_list == PyGet2(protocol, "outcomesModule", "primaryOutcomes", List(<<>>))
        primary_outcome_measures == NamesOf(primary_outcomes_list, "measure")
        locations_list == PyGet2(protocol, "contactsLocationsModule", "locations", List(<<>>))
        location_info == LocationInfo(locations_list)
        extracted_info ==
            [f \in OutputFields |->
                CASE f = "NCT ID"        -> nct_id
                  [] f = "Title"         -> title
                  [] f = "Status"        -> status
                  [] f = "Phases"        -> phases
                  [] f = "Conditions"    -> conditions
                  [] f = "Keywords"      -> keywords
                  [] f = "Study Type"    -> study_type
                  [] f = "Enrollment"    -> enrollment
                  [] f = "Interventions" -> intervention_names
                  [] f = "Brief Summary" -> brief_summary
                  [] f = "Primary Outcome Measures" -> primary_outcome_measures
                  [] f = "Eligibility Criteria"     -> eligibility
                  [] f = "Start Date"      -> start_date
                  [] f = "Completion Date" -> completion_date
                  [] f = "Locations"       -> location_info]
    IN  IF \E f \in OutputFields : extracted_info[f] = Raise
        THEN Raise
        ELSE Map(extracted_info)

\* The function without its except clause: a raise leaves the function
extract_NoCatch(sd) == ExtractBody(sd)

\* _extract_study_data(study_dict): `except Exception` turns every raise of
\* the body into `return None`
extract_study_data(sd) ==
    LET body == ExtractBody(sd) IN
    IF body = Raise THEN PyNone ELSE body

-----------------------------------------------------------------------------
(* The raw study records _extract_study_data is run on *)

\* Marks a key left out of a dict under construction; never a value.
Absent == [t |-> "absent"]

\* The dict of the <<key, value>> pairs whose value is not Absent
MkDict(pairs) ==
    LET present == {i \in DOMAIN pairs : pairs[i][2] # Absent}
        keys    == {pairs[i][1] : i \in present}
    IN  Map([k \in keys |-> pairs[CHOOSE i \in present : pairs[i][1] = k][2]])

IdentificationModules ==
    {Absent, Str("bad"), Map(EmptyDict),
     MkDict(<< <<"nctId", Str("NCT00001")>> >>),
     MkDict(<< <<"nctId", Str("NCT00001")>>, <<"briefTitle", Str("A Trial")>> >>)}

StatusModules ==
    {Absent, PyNone, Map(EmptyDict),
     MkDict(<< <<"overallStatus", Str("RECRUITING")>>,
               <<"startDateStruct", MkDict(<< <<"date", Str("2020-01")>> >>)>>,
               <<"completionDateStruct", Map(EmptyDict)>> >>),
     MkDict(<< <<"startDateStruct", Str("2020-01")>> >>)}

DesignModules ==
    {Absent,
     MkDict(<< <<"phases", List(<<Str("PHASE2"), Str("PHASE3")>>)>>,
               <<"studyType", Str("INTERVENTIONAL")>>,
               <<"enrollmentInfo", MkDict(<< <<"count", JInt(0)>> >>)>> >>),
     MkDict(<< <<"enrollmentInfo", Map(EmptyDict)>> >>),
     MkDict(<< <<"phases", List(<<>>)>>,
               <<"enrollmentInfo", MkDict(<< <<"count", JInt(120)>> >>)>> >>)}

ConditionsModules ==
    {Absent,
     MkDict(<< <<"conditions", List(<<Str("Diabetes")>>)>>,
               <<"keywords", List(<<Str("insulin"), Str("T2D")>>)>> >>)}

EligibilityModules ==
    {Absent, MkDict(<< <<"eligibilityCriteria", Str("Adults 18+")>> >>)}

ArmsInterventionsModules ==
    {Absent, List(<<>>), Map(EmptyDict),
     MkDict(<< <<"interventions",
                 List(<<MkDict(<< <<"name", Str("Metformin")>> >>), Map(EmptyDict),
                        MkDict(<< <<"name", Str("Placebo")>> >>)>>)>> >>),
     MkDict(<< <<"interventions", List(<<Str("Metformin")>>)>> >>),
     MkDict(<< <<"interventions", PyNone>> >>)}

DescriptionModules ==
    {Absent, MkDict(<< <<"briefSummary", Str("A summary")>> >>)}

OutcomesModules ==
    {Absent,
     MkDict(<< <<"primaryOutcomes",
                 List(<<Map(EmptyDict), MkDict(<< <<"measure", Str("HbA1c")>> >>)>>)>> >>)}

ContactsLocationsModules ==
    {Absent,
     MkDict(<< <<"locations",
                 List(<<MkDict(<< <<"city", Str("Boston")>>, <<"country", Str("United States")>> >>),
                        MkDict(<< <<"city", Str("Lyon")>> >>),
                        MkDict(<< <<"country", PyNone>> >>),
                        Map(EmptyDict)>>)>> >>),
     MkDict(<< <<"locations", List(<<PyNone>>)>> >>)}

\* protocolSection: left out, not a mapping (null, a str, a list), or a
\* mapping of any combination of the module shapes above
ProtocolSections ==
    {Absent, PyNone, Str("oops"), List(<<>>)} \cup
    {MkDict(<< <<"identificationModule", idm>>, <<"statusModule", stm>>,
               <<"designModule", dem>>, <<"conditionsModule", com>>,
               <<"eligibilityModule", elm>>, <<"armsInterventionsModule", aim>>,
               <<"descriptionModule", dsm>>, <<"outcomesModule", oum>>,
               <<"contactsLocationsModule", clm>> >>) :
        idm \in IdentificationModules, stm \in StatusModules,
        dem \in DesignModules, com \in ConditionsModules,
        elm \in EligibilityModules, aim \in ArmsInterventionsModules,
        dsm \in DescriptionModules, oum \in OutcomesModules,
        clm \in ContactsLocationsModules}

\* An element of the response's studies list: a dict, or (malformed) not one
RawStudies ==
    {PyNone, Str("NCT00001")} \cup
    {MkDict(<< <<"protocolSection", p>>, <<"hasResults", Str("false")>> >>) :
        p \in ProtocolSections}

-----------------------------------------------------------------------------
(* One call of _extract_study_data *)

FetchIdle ==
    /\ heap = <<>>
    /\ local_query_params = "none"
    /\ max_pages = 0
    /\ page_size = 0
    /\ current_page = 0
    /\ all_extracted_studies = <<>>
    /\ served = 0
    /\ responses = <<>>
    /\ io = <<>>
    /\ pc = "idle"
    /\ result = <<>>

InitExtract ==
    /\ study_dict \in RawStudies
    /\ extracted_data = PyNone
    /\ xpc = "call"
    /\ FetchIdle

\* extracted_data = _extract_study_data(study_raw); an exception leaving the
\* function would leave nothing returned
ExtractCall ==
    /\ xpc = "call"
    /\ LET r == extract_study_data(study_dict) IN
       IF r = Raise
       THEN xpc' = "raised" /\ UNCHANGED extracted_data
       ELSE xpc' = "returned" /\ extracted_data' = r
    /\ UNCHANGED <<study_dict, fetch_vars>>

NextExtract == ExtractCall

SpecExtract == InitExtract /\ [][NextExtract]_vars

-----------------------------------------------------------------------------
(* fetch_all_trials *)

MaxPages == 3

MaxPageSize == 2

MaxRecords == 3

\* The filters a caller passes, and the pagination keys it may have put in
Filters ==
    {MkDict(<< <<"query.cond", Str("breast cancer")>>, <<"query.term", Str("insulin")>> >>).m}

Queries ==
    {MkDict(<< <<"pageSize", ps>>, <<"pageToken", pt>> >>).m @@ f :
        f \in Filters, ps \in {Absent, JInt(7)}, pt \in {Absent, Str("stale")}}

\* The registry's i-th record: one that extracts (it carries its identifier),
\* or one whose protocolSection is not a mapping
RegistryRecord(i, kind) ==
    IF kind = "good"
    THEN MkDict(<< <<"protocolSection",
                     MkDict(<< <<"identificationModule",
                                 MkDict(<< <<"nctId", Str("NCT" \o ToString(i))>> >>)>> >>)>> >>)
    ELSE MkDict(<< <<"protocolSection", Str("oops")>> >>)

\* The token the server hands out with its k-th page
TokenOfPage(k) == Str("p" \o ToString(k))

\* The JSON bodies the server may answer the k-th request with, n records
\* sent so far: any number of the records left (whatever pageSize asked
\* for), the studies key possibly left out of an empty page, and a
\* nextPageToken that is left out, null, empty or a fresh token; or a body
\* that is no JSON object.
ServerBodies(k, n) ==
    {List(<<>>)} \cup
    {MkDict(<< <<"studies", st>>, <<"nextPageToken", tok>> >>) :
        st \in {Absent} \cup
               UNION {{List([i \in 1..j |-> RegistryRecord(n + i, kinds[i])]) :
                          kinds \in [1..j -> {"good", "malformed"}]} :
                      j \in 0..(MaxRecords - n)},
        tok \in {Absent, PyNone, Str(""), TokenOfPage(k)}}

\* A caller's dict passed where a copy was meant
DictAlias(h, ref) == [heap |-> h, ref |-> ref]

\* query_params.copy(): a new dict object with the same entries
DictCopy(h, ref) == [heap |-> ("copy" :> h[ref]) @@ h, ref |-> "copy"]

\* The limit test taken one page early
PageLimit_OffByOne(page, limit) == page >= limit

\* if current_page > max_pages
PageLimitReached(page, limit) == page > limit

\* The loop appending whatever extraction returned
ExtractPage_NoFilter(acc, studies) ==
    acc \o [i \in DOMAIN studies |-> extract_study_data(studies[i])]

\* The loop appending each extracted record twice
ExtractPage_Twice(acc, studies) ==
    LET got == SelectSeq([i \in DOMAIN studies |-> extract_study_data(studies[i])], Truthy)
    IN  acc \o got \o got

\* for study_raw in current_page_studies_raw: append the extraction if truthy
ExtractPage(acc, studies) ==
    acc \o SelectSeq([i \in DOMAIN studies |-> extract_study_data(studies[i])], Truthy)

\* The token of an earlier page left in place
KeepPageToken(params, token) ==
    IF "pageToken" \in DOMAIN params THEN params ELSE DictSet(params, "pageToken", token)

\* local_query_params['pageToken'] = next_page_token
SetPageToken(params, token) == DictSet(params, "pageToken", token)

\* A sleep after every page
SleepAlways(token) == TRUE

\* if next_page_token: ... time.sleep(0.5)
SleepsAfter(token) == Truthy(token)

\* Only a complete run's records handed back
ReturnOnlyComplete(acc, failed) == IF failed THEN <<>> ELSE acc

\* return all_extracted_studies, whichever break left the loop
ReturnValue(acc, failed) == acc

Get(params) == [op |-> "GET", params |-> params]

Sleep == [op |-> "sleep"]

ExtractIdle ==
    /\ study_dict = PyNone
    /\ extracted_data = PyNone
    /\ xpc = "idle"

Init ==
    /\ heap \in {[caller |-> q] : q \in Queries}
    /\ local_query_params = "none"
    /\ max_pages \in 0..MaxPages
    /\ page_size \in 1..MaxPageSize
    /\ current_page = 0
    /\ all_extracted_studies = <<>>
    /\ served = 0
    /\ responses = <<>>
    /\ io = <<>>
    /\ pc = "call"
    /\ result = <<>>
    /\ ExtractIdle

\* Lines 108-111: the list, the counter, the working copy with pageSize set
Call ==
    /\ pc = "call"
    /\ LET c == DictCopy(heap, "caller") IN
         /\ heap' = [c.heap EXCEPT ![c.ref] = DictSet(c.heap[c.ref], "pageSize", JInt(page_size))]
         /\ local_query_params' = c.ref
    /\ all_extracted_studies' = <<>>
    /\ current_page' = 0
    /\ pc' = "loop"
    /\ UNCHANGED <<max_pages, page_size, served, responses, io, result, extract_vars>>

\* Lines 116-119: the page limit ends the loop; lines 164-165 return
StopAtPageLimit ==
    /\ pc = "loop"
    /\ PageLimitReached(current_page + 1, max_pages)
    /\ current_page' = current_page + 1
    /\ pc' = "returned"
    /\ result' = ReturnValue(all_extracted_studies, FALSE)
    /\ UNCHANGED <<heap, local_query_params, max_pages, page_size,
                   all_extracted_studies, served, responses, io, extract_vars>>

\* Lines 116-130: the GET raises a RequestException (no connection, a
\* timeout, raise_for_status on a non-2xx status); break, then return
RequestFails ==
    /\ pc = "loop"
    /\ ~PageLimitReached(current_page + 1, max_pages)
    /\ current_page' = current_page + 1
    /\ io' = Append(io, Get(heap[local_query_params]))
    /\ responses' = Append(responses, [kind |-> "transport"])
    /\ pc' = "returned"
    /\ result' = ReturnValue(all_extracted_studies, TRUE)
    /\ UNCHANGED <<heap, local_query_params, max_pages, page_size,
                   all_extracted_studies, served, extract_vars>>

\* Lines 116-135: response.json() fails to decode the body; break, return
DecodeFails ==
    /\ pc = "loop"
    /\ ~PageLimitReached(current_page + 1, max_pages)
    /\ current_page' = current_page + 1
    /\ io' = Append(io, Get(heap[local_query_params]))
    /\ responses' = Append(responses, [kind |-> "decode"])
    /\ pc' = "returned"
    /\ result' = ReturnValue(all_extracted_studies, TRUE)
    /\ UNCHANGED <<heap, local_query_params, max_pages, page_size,
                   all_extracted_studies, served, extract_vars>>

\* Lines 116-126 and 138: the body decodes to JSON that is no object, so
\* data.get raises AttributeError, which no except clause of the loop catches
PageRaises ==
    /\ pc = "loop"
    /\ ~PageLimitReached(current_page + 1, max_pages)
    /\ \E data \in ServerBodies(current_page + 1, served) :
         /\ PyGet(data, "studies", List(<<>>)) = Raise
         /\ responses' = Append(responses, [kind |-> "ok", data |-> data])
    /\ current_page' = current_page + 1
    /\ io' = Append(io, Get(heap[local_query_params]))
    /\ pc' = "raised"
    /\ UNCHANGED <<heap, local_query_params, max_pages, page_size,
                   all_extracted_studies, served, result, extract_vars>>

\* Lines 116-159: a page arrives with a next page token: its records are
\* extracted, the token is stored in the working dict, the loop sleeps and
\* goes round
FetchPageAndContinue ==
    /\ pc = "loop"
    /\ ~PageLimitReached(current_page + 1, max_pages)
    /\ \E data \in ServerBodies(current_page + 1, served) :
         LET current_page_studies_raw == PyGet(data, "studies", List(<<>>))
             next_page_token == PyGet(data, "nextPageToken", PyNone)
         IN  /\ current_page_studies_raw # Raise
             /\ Truthy(next_page_token)
             /\ responses' = Append(responses, [kind |-> "ok", data |-> data])
             /\ served' = served + Len(current_page_studies_raw.l)
             /\ all_extracted_studies' =
                    ExtractPage(all_extracted_studies, current_page_studies_raw.l)
             /\ heap' = [heap EXCEPT ![local_query_params] =
                            SetPageToken(heap[local_query_params], next_page_token)]
             /\ io' = IF SleepsAfter(next_page_token)
                      THEN io \o <<Get(heap[local_query_params]), Sleep>>
                      ELSE Append(io, Get(heap[local_query_params]))
    /\ current_page' = current_page + 1
    /\ UNCHANGED <<local_query_params, max_pages, page_size, pc, result, extract_vars>>

\* Lines 116-150 and 160-165: a page arrives without a next page token (the
\* key missing, null or empty): its records are extracted, break, return
FetchLastPage ==
    /\ pc = "loop"
    /\ ~PageLimitReached(current_page + 1, max_pages)
    /\ \E data \in ServerBodies(current_page + 1, served) :
         LET current_page_studies_raw == PyGet(data, "studies", List(<<>>))
             next_page_token == PyGet(data, "nextPageToken", PyNone)
         IN  /\ current_page_studies_raw # Raise
             /\ ~Truthy(next_page_token)
             /\ responses' = Append(responses, [kind |-> "ok", data |-> data])
             /\ served' = served + Len(current_page_studies_raw.l)
             /\ all_extracted_studies' =
                    ExtractPage(all_extracted_studies, current_page_studies_raw.l)
             /\ io' = IF SleepsAfter(next_page_token)
                      THEN io \o <<Get(heap[local_query_params]), Sleep>>
                      ELSE Append(io, Get(heap[local_query_params]))
             /\ result' = ReturnValue(all_extracted_studies', FALSE)
    /\ current_page' = current_page + 1
    /\ pc' = "returned"
    /\ UNCHANGED <<heap, local_query_params, max_pages, page_size, extract_vars>>

Next ==
    \/ Call
    \/ StopAtPageLimit
    \/ RequestFails
    \/ DecodeFails
    \/ PageRaises
    \/ FetchPageAndContinue
    \/ FetchLastPage

Spec == Init /\ [][Next]_vars

-----------------------------------------------------------------------------
(* What the claims about _extract_study_data speak of *)

IsMap(v) == v.t = "map"

HasKey(v, k) == IsMap(v) /\ k \in DOMAIN v.m

SectionKeys ==
    {"identificationModule", "statusModule", "designModule", "conditionsModule",
     "eligibilityModule", "armsInterventionsModule", "descriptionModule",
     "outcomesModule", "contactsLocationsModule"}

\* The value found by following path from v, or default when a key of the
\* path is missing
RECURSIVE At(_, _, _)
At(v, path, default) ==
    IF path = <<>> THEN v
    ELSE IF HasKey(v, Head(path)) THEN At(v.m[Head(path)], Tail(path), default)
    ELSE default

ItemsOf(v) == IF v.t = "list" THEN v.l ELSE <<>>

\* Each section that is present is a mapping: the record, its
\* protocolSection and the nine modules
SectionsAreMappings(raw) ==
    /\ IsMap(raw)
    /\ HasKey(raw, "protocolSection") =>
         /\ IsMap(raw.m["protocolSection"])
         /\ \A k \in SectionKeys :
               HasKey(raw.m["protocolSection"], k) => IsMap(raw.m["protocolSection"].m[k])

EntryLists ==
    {<<"protocolSection", "armsInterventionsModule", "interventions">>,
     <<"protocolSection", "outcomesModule", "primaryOutcomes">>,
     <<"protocolSection", "contactsLocationsModule", "locations">>}

\* Reading "section" as widely as it can be read: each nested struct that is
\* present is a mapping too, and so is each entry of a list of entries
NestedAreMappings(raw) ==
    /\ \A path \in {<<"protocolSection", "statusModule", "startDateStruct">>,
                    <<"protocolSection", "statusModule", "completionDateStruct">>,
                    <<"protocolSection", "designModule", "enrollmentInfo">>} :
          IsMap(At(raw, path, Map(EmptyDict)))
    /\ \A path \in EntryLists :
          LET entries == ItemsOf(At(raw, path, List(<<>>))) IN
          \A i \in DOMAIN entries : IsMap(entries[i])

\* Each of the three lists of entries that is present is a list
EntryListsAreLists(raw) ==
    \A path \in EntryLists : At(raw, path, List(<<>>)).t = "list"

\* The record the claims describe: each field the source value when present,
\* otherwise its default
Expected(raw) ==
    LET P(path) == <<"protocolSection">> \o path
        entries(path) == ItemsOf(At(raw, P(path), List(<<>>)))
        names(path, key) ==
            List([i \in DOMAIN entries(path) |-> At(entries(path)[i], <<key>>, Str("N/A"))])
        locs == entries(<<"contactsLocationsModule", "locations">>)
    IN  [f \in OutputFields |->
          CASE f = "NCT ID"     -> At(raw, P(<<"identificationModule", "nctId">>), Str("Not Available"))
            [] f = "Title"      -> At(raw, P(<<"identificationModule", "briefTitle">>), Str("Not Available"))
            [] f = "Status"     -> At(raw, P(<<"statusModule", "overallStatus">>), Str("Not Available"))
            [] f = "Phases"     -> At(raw, P(<<"designModule", "phases">>), List(<<>>))
            [] f = "Conditions" -> At(raw, P(<<"conditionsModule", "conditions">>), List(<<>>))
            [] f = "Keywords"   -> At(raw, P(<<"conditionsModule", "keywords">>), List(<<>>))
            [] f = "Study Type" -> At(raw, P(<<"designModule", "studyType">>), Str("Not Available"))
            [] f = "Enrollment" -> At(raw, P(<<"designModule", "enrollmentInfo", "count">>), PyNone)
            [] f = "Interventions" -> names(<<"armsInterventionsModule", "interventions">>, "name")
            [] f = "Brief Summary" -> At(raw, P(<<"descriptionModule", "briefSummary">>), Str("Not Available"))
            [] f = "Primary Outcome Measures" -> names(<<"outcomesModule", "primaryOutcomes">>, "measure")
            [] f = "Eligibility Criteria" ->
                   At(raw, P(<<"eligibilityModule", "eligibilityCriteria">>), Str("Not Available"))
            [] f = "Start Date" -> At(raw, P(<<"statusModule", "startDateStruct", "date">>), Str("Not Available"))
            [] f = "Completion Date" ->
                   At(raw, P(<<"statusModule", "completionDateStruct", "date">>), Str("Not Available"))
            [] f = "Locations"  ->
                   List([i \in DOMAIN locs |->
                          Str(Format(At(locs[i], <<"city">>, Str("N/A"))) \o ", " \o
                              Format(At(locs[i], <<"country">>, Str("N/A"))))])]

\* The record whose every field is at its default
AllDefaults ==
    [f \in OutputFields |->
       IF f \in {"Phases", "Conditions", "Keywords", "Interventions",
                 "Primary Outcome Measures", "Locations"} THEN List(<<>>)
       ELSE IF f = "Enrollment" THEN PyNone
       ELSE Str("Not Available")]

C6_SectionsMappingsSucceeds ==
    (xpc # "call" /\ SectionsAreMappings(study_dict) /\ NestedAreMappings(study_dict)) =>
        /\ xpc = "returned"
        /\ extracted_data # PyNone
        /\ DOMAIN extracted_data.m = OutputFields
        /\ extracted_data.m = Expected(study_dict)

\* C6 amended: on every record in which each section, nested struct and list
\* entry that is present is a mapping and each list of entries that is
\* present is a list, extraction succeeds and returns exactly the 15 fields,
\* each the source value when present and otherwise its default ("Not
\* Available", the empty list, None for the enrollment, "N/A" inside an entry).
C6_WellFormedSucceeds ==
    (xpc # "call" /\ SectionsAreMappings(study_dict) /\ NestedAreMappings(study_dict)
       /\ EntryListsAreLists(study_dict)) =>
        /\ xpc = "returned"
        /\ extracted_data # PyNone
        /\ DOMAIN extracted_data.m = OutputFields
        /\ Cardinality(DOMAIN extracted_data.m) = 15
        /\ extracted_data.m = Expected(study_dict)

C6_Witness ==
    /\ xpc = "returned"
    /\ SectionsAreMappings(study_dict) /\ NestedAreMappings(study_dict)
    /\ EntryListsAreLists(study_dict)
    /\ HasKey(study_dict, "protocolSection")
    /\ ~HasKey(study_dict.m["protocolSection"], "armsInterventionsModule")
    /\ HasKey(study_dict.m["protocolSection"], "contactsLocationsModule")
    /\ extracted_data.m["NCT ID"] = Str("NCT00001")
    /\ extracted_data.m["Interventions"] = List(<<>>)
    /\ extracted_data.m["Enrollment"] = PyNone
    /\ extracted_data.m["Title"] = Str("Not Available")
    /\ extracted_data.m["Locations"] =
         List(<<Str("Boston, United States"), Str("Lyon, N/A"), Str("N/A, None"), Str("N/A, N/A")>>)

-----------------------------------------------------------------------------
(* What the claims about fetch_all_trials speak of *)

IsGet(e) == e.op = "GET"

\* The GET requests issued so far, in order
Requests == SelectSeq(io, IsGet)

NumRequests == Len(Requests)

\* The caller's mapping, as the caller sees it
CallerQuery == heap["caller"]

\* A response that decoded to a JSON object
IsPage(r) == r.kind = "ok" /\ IsMap(r.data)

IsFailure(r) == r.kind \in {"transport", "decode"}

\* A response carrying a continuation token: a non-empty string
CarriesToken(r) ==
    /\ IsPage(r)
    /\ HasKey(r.data, "nextPageToken")
    /\ r.data.m["nextPageToken"].t = "str"
    /\ r.data.m["nextPageToken"].s # ""

\* The raw records of a response, in the order of its studies list
RawOf(r) == IF IsPage(r) THEN ItemsOf(At(r.data, <<"studies">>, List(<<>>))) ELSE <<>>

Succeeded(x) == x # PyNone

\* The extracted records of the raw records of r on which extraction
\* succeeded, in order
ExtractedOf(r) ==
    SelectSeq([i \in DOMAIN RawOf(r) |-> extract_study_data(RawOf(r)[i])], Succeeded)

RECURSIVE ConcatPages(_)
ConcatPages(rs) ==
    IF rs = <<>> THEN <<>>
    ELSE ConcatPages(SubSeq(rs, 1, Len(rs) - 1)) \o ExtractedOf(rs[Len(rs)])

RECURSIVE TotalRaw(_)
TotalRaw(rs) ==
    IF rs = <<>> THEN 0 ELSE TotalRaw(Tail(rs)) + Len(RawOf(Head(rs)))

Min(a, b) == IF a <= b THEN a ELSE b

Least(S) == CHOOSE x \in S : \A y \in S : x <= y

Finished == pc \in {"returned", "raised"}

\* C1: every GET has its response, no request follows a response without a
\* continuation token, and a run of successful page responses issues exactly
\* min(max_pages, n) requests, n the position of the first response that
\* carries no token (when every response so far carried one, n is beyond
\* them and the count is max_pages).
C1_RequestCount ==
    /\ NumRequests = Len(responses)
    /\ \A i \in 1..(Len(responses) - 1) : CarriesToken(responses[i])
    /\ (pc = "returned" /\ \A i \in DOMAIN responses : IsPage(responses[i])) =>
         LET tokenless == {i \in DOMAIN responses : ~CarriesToken(responses[i])} IN
         IF tokenless = {} THEN NumRequests = max_pages
         ELSE NumRequests = Min(max_pages, Least(tokenless))

C1_Witness ==
    /\ pc = "returned"
    /\ max_pages >= 3
    /\ NumRequests = 3
    /\ CarriesToken(responses[1]) /\ CarriesToken(responses[2])
    /\ IsPage(responses[3]) /\ ~CarriesToken(responses[3])

\* C2: the returned sequence is the concatenation, in page order and within
\* a page in the order of its studies list, of the extracted records of the
\* raw records on which extraction succeeded; the accumulating list is that
\* concatenation after every page.
C2_ResultIsConcatenation ==
    /\ pc # "call" => all_extracted_studies = ConcatPages(responses)
    /\ pc = "returned" =>
         /\ result = ConcatPages(responses)
         /\ \A i \in DOMAIN result : result[i] # PyNone
         /\ Len(result) <= TotalRaw(responses)

C2_Witness ==
    /\ pc = "returned"
    /\ Len(responses) = 2
    /\ Len(RawOf(responses[1])) = 2 /\ Len(RawOf(responses[2])) = 1
    /\ extract_study_data(RawOf(responses[1])[2]) = PyNone
    /\ Len(result) = 2
    /\ result[1].m["NCT ID"] = Str("NCT1")
    /\ result[2].m["NCT ID"] = Str("NCT3")

ServerHonoursPageSize ==
    \A i \in DOMAIN responses : Len(RawOf(responses[i])) <= page_size

NumPages == Cardinality({i \in DOMAIN responses : IsPage(responses[i])})

\* C4 as stated: the returned length is at most pages fetched x page_size.
C4_LengthAtMostPagesTimesSize ==
    pc = "returned" => (Len(result) >= 0 /\ Len(result) <= NumRequests * page_size)

\* C4 amended: the returned length is never negative and is at most the
\* number of raw records the fetched pages carried; it is at most
\* pages fetched x page_size when no page carried more than page_size records.
C4_LengthAtMostRecordsSent ==
    pc = "returned" =>
        /\ Len(result) >= 0
        /\ Len(result) <= TotalRaw(responses)
        /\ ServerHonoursPageSize => Len(result) <= NumPages * page_size

C4_Witness ==
    /\ pc = "returned"
    /\ ServerHonoursPageSize
    /\ page_size = 1
    /\ NumPages = 2
    /\ Len(result) = 2

NoPaginationKeys == DOMAIN CallerQuery \cap {"pageSize", "pageToken"} = {}

\* C7: for a query without pagination keys every request carries the
\* caller's entries unchanged plus pageSize = page_size and nothing else but,
\* from the second request on, pageToken = the token of the response before.
C7_RequestParams ==
    NoPaginationKeys =>
        \A k \in 1..NumRequests :
            LET p == Requests[k].params IN
            /\ \A key \in DOMAIN CallerQuery : key \in DOMAIN p /\ p[key] = CallerQuery[key]
            /\ DOMAIN p = DOMAIN CallerQuery \cup {"pageSize"}
                            \cup (IF k >= 2 THEN {"pageToken"} ELSE {})
            /\ p["pageSize"] = JInt(page_size)
            /\ k >= 2 => /\ CarriesToken(responses[k - 1])
                         /\ p["pageToken"] = responses[k - 1].data.m["nextPageToken"]

C7_Witness ==
    /\ NoPaginationKeys
    /\ NumRequests = 3
    /\ "pageToken" \notin DOMAIN Requests[1].params
    /\ Requests[2].params["pageToken"] = Str("p1")
    /\ Requests[3].params["pageToken"] = Str("p2")

\* C8 as stated: no request, the first included, carries the pageSize or the
\* pageToken value the caller put in the query.
C8_CallerPaginationOverwritten ==
    \A k \in 1..NumRequests :
        LET p == Requests[k].params IN
        /\ "pageSize" \in DOMAIN CallerQuery => p["pageSize"] # CallerQuery["pageSize"]
        /\ "pageToken" \in DOMAIN CallerQuery =>
              ~("pageToken" \in DOMAIN p /\ p["pageToken"] = CallerQuery["pageToken"])

\* C9: no step of fetch_all_trials changes the caller's mapping.
C9_CallerQueryUnchanged == [][heap'["caller"] = heap["caller"]]_vars

C9_Witness ==
    /\ pc = "returned"
    /\ NumRequests >= 2
    /\ local_query_params = "copy"
    /\ {"pageSize", "pageToken"} \subseteq DOMAIN heap["copy"]
    /\ NoPaginationKeys

\* Which request the GET at position i of io is
RequestNumber(i) == Len(SelectSeq(SubSeq(io, 1, i), IsGet))

FollowsTokenPage(i) ==
    /\ i > 1
    /\ io[i - 1].op = "GET"
    /\ CarriesToken(responses[RequestNumber(i - 1)])

\* C10 as stated: every pause follows a response that carried a token and is
\* followed by another GET, so none comes after the last request of a run.
C10_PauseOnlyBetweenRequests ==
    \A i \in DOMAIN io :
        io[i].op = "sleep" =>
            /\ FollowsTokenPage(i)
            /\ i < Len(io) => io[i + 1].op = "GET"
            /\ Finished => i < Len(io)

\* C10 amended: every pause directly follows a GET whose response carried a
\* token, and is followed by another GET unless the page limit ends the run:
\* a run that the page limit ends after max_pages >= 1 requests has made its
\* pause after the last request.
C10_PauseAfterTokenPage ==
    /\ \A i \in DOMAIN io :
          io[i].op = "sleep" =>
              /\ FollowsTokenPage(i)
              /\ i < Len(io) => io[i + 1].op = "GET"
              /\ (Finished /\ i = Len(io)) =>
                    (pc = "returned" /\ NumRequests = max_pages /\ current_page = max_pages + 1)
    /\ (pc = "returned" /\ current_page = max_pages + 1 /\ max_pages >= 1) =>
          io[Len(io)].op = "sleep"

C10_Witness ==
    /\ pc = "returned"
    /\ max_pages = 2
    /\ Len(io) = 4
    /\ io[1].op = "GET" /\ io[2].op = "sleep" /\ io[3].op = "GET" /\ io[4].op = "sleep"

====
